---- MODULE Spec2Model ----
(***************************************************************************)
(* A model of the path tracer's core: the tiled multi-threaded render      *)
(* scheduler (main.rs: main, render_multi_thread, get_segment), the        *)
(* recursive radiance integrator (main.rs: colour) and the BVH build and   *)
(* traversal (hitable.rs).                                                 *)
(*                                                                         *)
(* Floating-point values are modelled by integers: colours by one          *)
(* fixed-point channel, coordinates and ray parameters by integers, and    *)
(* sqrt by the integer square root.  The files rng.rs, aabb.rs, camera.rs, *)
(* vec3.rs and ray.rs are not part of the sources at hand; the few         *)
(* operations of theirs that the core calls are modelled from their        *)
(* interface (section 6 of the specification).                             *)
(***************************************************************************)
EXTENDS Integers, Sequences, FiniteSets, TLC

(***************************************************************************)
(* Bounds of the model.                                                    *)
(***************************************************************************)
MaxThreads == 3
MaxNx == 2
MaxNy == 3
MaxSamples == 2

VARIABLES
    \* ---- render scheduler (main, render_multi_thread) ----
    thread_count,       \* main.rs:45, parameter of render_multi_thread
    nx,                 \* image width
    ny,                 \* image height
    samples_per_pixel,
    mpc,                \* position of the main thread
    spawn_iter,         \* iterations the spawn loop has made (main.rs:84)
    workers,            \* Vec<JoinHandle>: thread indices in push order
    thd,                \* per thread index: the spawned closure's state
    cols,               \* the buffer render_multi_thread builds and returns
    joined,             \* how many handles of workers have been joined
    output,             \* what main has written to stdout
    \* ---- radiance integrator (colour) ----
    cpc,                \* "call": a colour call is about to run; "returned"
    depth,              \* the depth argument of the innermost colour call
    pending,            \* the product of the attenuations of the calls that wait
    nCalls,             \* colour calls (hit queries) made for this sample
    nScatter,           \* scatter calls made for this sample
    last,               \* what the last colour call did
    radiance,           \* the value the outermost colour call returned
    \* ---- BVH build and traversal (hitable.rs) ----
    hitables_in,        \* the collection BvhTree::build was called with
    bpc,                \* "build", "built", "queried" or "overflow"
    calls,              \* the pending work of build_bvh_tree's recursion, top first
    results,            \* the subtrees the finished calls returned, last first
    tree,               \* BvhTree.root, once built
    last_split,         \* the sizes of the last sort/split/recurse step
    splits,             \* how many sort/split/recurse steps have run
    query               \* the last hit query and its two answers

renderVars == <<thread_count, nx, ny, samples_per_pixel, mpc, spawn_iter,
                workers, thd, cols, joined, output>>

colourVars == <<cpc, depth, pending, nCalls, nScatter, last, radiance>>

bvhVars == <<hitables_in, bpc, calls, results, tree, last_split, splits, query>>

vars == <<renderVars, colourVars, bvhVars>>

(***************************************************************************)
(* Arithmetic helpers.                                                     *)
(***************************************************************************)
RECURSIVE ISqrtFrom(_, _)
ISqrtFrom(n, r) == IF (r + 1) * (r + 1) > n THEN r ELSE ISqrtFrom(n, r + 1)

\* f32::sqrt on the integer model: the largest r with r*r <= n.
ISqrt(n) == ISqrtFrom(n, 0)

(***************************************************************************)
(* The pseudo-random generator (rng.rs): a seedable generator private to   *)
(* whoever owns it.  A small linear congruential generator stands for it.  *)
(***************************************************************************)
RngMod == 16

create_with_seed(seed) == seed % RngMod

\* gen(): advances the generator and returns the draw: [rnd, val].
gen(rnd) ==
    LET s == (5 * rnd + 3) % RngMod
    IN  [rnd |-> s, val |-> s]

(***************************************************************************)
(* get_segment (main.rs:186-195): the half-open band of rows of one        *)
(* thread.                                                                 *)
(***************************************************************************)
get_segment_no_remainder(tc, ti, height) ==
    LET segment_size == height \div tc
    IN  <<segment_size * ti, segment_size * (ti + 1)>>

get_segment(tc, ti, height) ==
    LET segment_size == height \div tc
        lower == segment_size * ti
        upper == IF ti = tc - 1 THEN height ELSE segment_size * (ti + 1)
    IN  <<lower, upper>>

(***************************************************************************)
(* One pixel of a worker (main.rs:95-106).  ColScale is the fixed-point    *)
(* value of 1.0 of a colour channel.  A sample draws u and v, and the      *)
(* camera and the integrator draw again, a number of times that depends    *)
(* on the draws themselves (the path's length).                            *)
(***************************************************************************)
ColScale == 8

SampleColour(x, y, rnd) ==
    LET g1 == gen(rnd)
        g2 == gen(g1.rnd)
        g3 == gen(g2.rnd)
        g4 == IF g3.val % 2 = 1 THEN gen(g3.rnd) ELSE g3
    IN  [rnd |-> g4.rnd,
         val |-> (7 * x + g1.val + 3 * y + 2 * g2.val + g3.val + g4.val) % (ColScale + 1)]

RECURSIVE SampleLoop(_, _, _, _, _)
SampleLoop(x, y, rnd, col, n) ==
    IF n = 0 THEN [rnd |-> rnd, col |-> col]
    ELSE LET s == SampleColour(x, y, rnd)
         IN  SampleLoop(x, y, s.rnd, col + s.val, n - 1)

\* The pixel: the sample loop, the average and the gamma-2 correction.
\* The entry carries the coordinates it was computed for.
PixelCompute(x, y, rnd, spp) ==
    LET acc == SampleLoop(x, y, rnd, 0, spp)
        avg == acc.col \div spp
    IN  [rnd |-> acc.rnd,
         pix |-> [x |-> x, y |-> y, c |-> ISqrt(avg * ColScale)]]

(***************************************************************************)
(* The components at rest, for the specifications that run one of them.    *)
(***************************************************************************)
NoCall == [depth |-> 0, hit |-> FALSE, material |-> "none", pending |-> 0,
           scatter_called |-> FALSE, scattered |-> FALSE, outcome |-> "none"]

NoHit == [some |-> FALSE, t |-> 0, id |-> 0]

NoSplit == [n |-> 0, left |-> 0, right |-> 0]

NoQuery == [asked |-> FALSE, origin |-> <<0, 0, 0>>, direction |-> <<0, 0, 0>>,
            t_min |-> 0, t_max |-> 0, bvh |-> NoHit, ties |-> {}, scan_first |-> NoHit,
            scan_last |-> NoHit]

(***************************************************************************)
(* The render scheduler.                                                   *)
(***************************************************************************)
Unspawned == [status |-> "unspawned", seed |-> 0, y0 |-> 0, y1 |-> 0,
              rnd |-> 0, cols |-> <<>>, y |-> 0, x |-> 0, spawns |-> 0]

InitRender ==
    /\ thread_count \in 1..MaxThreads
    /\ nx \in 0..MaxNx
    /\ ny \in 0..MaxNy
    /\ samples_per_pixel \in 1..MaxSamples
    /\ mpc = "spawn"
    /\ spawn_iter = 0
    /\ workers = <<>>
    /\ thd = [i \in 0..(MaxThreads) |-> Unspawned]
    /\ cols = <<>>
    /\ joined = 0
    /\ output = <<>>
    /\ cpc = "idle" /\ depth = 0 /\ pending = 0 /\ nCalls = 0 /\ nScatter = 0
    /\ last = NoCall /\ radiance = 0
    /\ hitables_in = <<>> /\ bpc = "idle" /\ calls = <<>> /\ results = <<>>
    /\ tree = NoHit /\ last_split = NoSplit /\ splits = 0 /\ query = NoQuery

\* The thread indices in the order the spawn loop visits them (main.rs:84):
\* (0..thread_count).rev().
SpawnOrder_forward(tc) == [k \in 1..tc |-> k - 1]

SpawnOrder(tc) == [k \in 1..tc |-> tc - k]

\* main.rs:86.
thread_seed(ti) == 1234 * ti

\* main.rs:84-114, one iteration: the seed, the band, the spawn, the push.
Spawn ==
    /\ mpc = "spawn"
    /\ spawn_iter < thread_count
    /\ LET thread_index == SpawnOrder(thread_count)[spawn_iter + 1]
           seg == get_segment(thread_count, thread_index, ny)
       IN  /\ thd' = [thd EXCEPT ![thread_index] =
                        [status |-> "running",
                         seed |-> thread_seed(thread_index),
                         y0 |-> seg[1], y1 |-> seg[2],
                         rnd |-> create_with_seed(thread_seed(thread_index)),
                         cols |-> <<>>,
                         y |-> seg[2] - 1, x |-> 0,
                         spawns |-> @.spawns + 1]]
           /\ workers' = Append(workers, thread_index)
    /\ spawn_iter' = spawn_iter + 1
    /\ UNCHANGED <<thread_count, nx, ny, samples_per_pixel, mpc, cols, joined, output>>

\* The spawn loop ends; the join loop begins (main.rs:116).
SpawnDone ==
    /\ mpc = "spawn"
    /\ spawn_iter = thread_count
    /\ mpc' = "join"
    /\ UNCHANGED <<thread_count, nx, ny, samples_per_pixel, spawn_iter, workers,
                   thd, cols, joined, output>>

Alive == mpc \in {"spawn", "join", "print_header", "print_pixels"}

\* The generator a worker draws from: its own (main.rs:90).
WorkerRnd_shared(i) ==
    (thd[i].rnd + Cardinality({j \in DOMAIN thd : thd[j].status \in {"finished", "joined"}})) % RngMod

WorkerRnd(i) == thd[i].rnd

\* main.rs:92-107: one pixel of the closure, then the loops advance.
WorkerPixel(i) ==
    /\ Alive
    /\ thd[i].status = "running"
    /\ nx > 0
    /\ thd[i].y >= thd[i].y0
    /\ LET p == PixelCompute(thd[i].x, thd[i].y, WorkerRnd(i), samples_per_pixel)
           row_done == thd[i].x + 1 = nx
       IN  thd' = [thd EXCEPT ![i] =
                     [@ EXCEPT !.rnd = p.rnd,
                               !.cols = Append(@, p.pix),
                               !.x = IF row_done THEN 0 ELSE @ + 1,
                               !.y = IF row_done THEN @ - 1 ELSE @]]
    /\ UNCHANGED <<thread_count, nx, ny, samples_per_pixel, mpc, spawn_iter,
                   workers, cols, joined, output>>

\* main.rs:110: the closure returns its buffer.
WorkerReturn(i) ==
    /\ Alive
    /\ thd[i].status = "running"
    /\ (nx = 0 \/ thd[i].y < thd[i].y0)
    /\ thd' = [thd EXCEPT ![i].status = "finished"]
    /\ UNCHANGED <<thread_count, nx, ny, samples_per_pixel, mpc, spawn_iter,
                   workers, cols, joined, output>>

\* An unrecoverable fault in a worker: the thread panics.
WorkerPanic(i) ==
    /\ Alive
    /\ thd[i].status = "running"
    /\ thd' = [thd EXCEPT ![i].status = "panicked"]
    /\ UNCHANGED <<thread_count, nx, ny, samples_per_pixel, mpc, spawn_iter,
                   workers, cols, joined, output>>

\* What join().unwrap() does with a worker that panicked (main.rs:117).
JoinPanicked_ignore(w) ==
    /\ joined' = joined + 1
    /\ UNCHANGED <<mpc, cols, thd>>

JoinPanicked(w) ==
    /\ mpc' = "aborted"
    /\ UNCHANGED <<joined, cols, thd>>

\* main.rs:116-119, one iteration: join the next handle, append its buffer.
Join ==
    /\ mpc = "join"
    /\ joined < Len(workers)
    /\ LET w == workers[joined + 1]
       IN  \/ /\ thd[w].status = "finished"
              /\ cols' = cols \o thd[w].cols
              /\ thd' = [thd EXCEPT ![w].status = "joined"]
              /\ joined' = joined + 1
              /\ UNCHANGED mpc
           \/ /\ thd[w].status = "panicked"
              /\ JoinPanicked(w)
    /\ UNCHANGED <<thread_count, nx, ny, samples_per_pixel, spawn_iter, workers, output>>

\* main.rs:121: render_multi_thread returns cols to main.
RenderReturn ==
    /\ mpc = "join"
    /\ joined = Len(workers)
    /\ mpc' = "print_header"
    /\ UNCHANGED <<thread_count, nx, ny, samples_per_pixel, spawn_iter, workers,
                   thd, cols, joined, output>>

\* (255.99 * channel) as i32 (main.rs:60-62) on the fixed-point channel.
ToByte(c) == (25599 * c) \div (100 * ColScale)

\* main.rs:58.
PrintHeader ==
    /\ mpc = "print_header"
    /\ output' = Append(output, <<"P3", nx, ny, 255>>)
    /\ mpc' = "print_pixels"
    /\ UNCHANGED <<thread_count, nx, ny, samples_per_pixel, spawn_iter, workers,
                   thd, cols, joined>>

\* main.rs:59-64, one iteration.
PrintPixel ==
    /\ mpc = "print_pixels"
    /\ Len(output) - 1 < Len(cols)
    /\ output' = Append(output, <<ToByte(cols[Len(output)].c)>>)
    /\ UNCHANGED <<thread_count, nx, ny, samples_per_pixel, mpc, spawn_iter,
                   workers, thd, cols, joined>>

\* main.rs:65.
Exit ==
    /\ mpc = "print_pixels"
    /\ Len(output) - 1 = Len(cols)
    /\ mpc' = "exit"
    /\ UNCHANGED <<thread_count, nx, ny, samples_per_pixel, spawn_iter, workers,
                   thd, cols, joined, output>>

NextRender ==
    \/ Spawn /\ UNCHANGED <<colourVars, bvhVars>>
    \/ SpawnDone /\ UNCHANGED <<colourVars, bvhVars>>
    \/ \E i \in 0..(MaxThreads) : WorkerPixel(i) /\ UNCHANGED <<colourVars, bvhVars>>
    \/ \E i \in 0..(MaxThreads) : WorkerReturn(i) /\ UNCHANGED <<colourVars, bvhVars>>
    \/ \E i \in 0..(MaxThreads) : WorkerPanic(i) /\ UNCHANGED <<colourVars, bvhVars>>
    \/ Join /\ UNCHANGED <<colourVars, bvhVars>>
    \/ RenderReturn /\ UNCHANGED <<colourVars, bvhVars>>
    \/ PrintHeader /\ UNCHANGED <<colourVars, bvhVars>>
    \/ PrintPixel /\ UNCHANGED <<colourVars, bvhVars>>
    \/ Exit /\ UNCHANGED <<colourVars, bvhVars>>

\* The render alone: the other components stay as they are.
SpecRender == InitRender /\ [][NextRender]_vars
(***************************************************************************)
(* Properties of the render scheduler.                                     *)
(***************************************************************************)
\* render_multi_thread has returned its buffer to main.
Returned == mpc \in {"print_header", "print_pixels", "exit"}

\* C1: whatever the order in which the workers ran and finished, the buffer
\* render_multi_thread returns has nx*ny entries and entry k (from 0) is the
\* pixel computed for column k mod nx of row ny-1-(k div nx): rows top to
\* bottom, columns left to right, every pixel exactly once.
C1_ImageOrder ==
    Returned =>
        /\ Len(cols) = nx * ny
        /\ \A k \in 0..(Len(cols) - 1) :
              /\ cols[k + 1].x = k % nx
              /\ cols[k + 1].y = ny - 1 - (k \div nx)

\* C1 witness: a render whose rows do not divide evenly among the threads
\* has returned its full buffer.
C1_Witness ==
    /\ Returned
    /\ thread_count = 2 /\ ny = 3 /\ nx = 2
    /\ Len(cols) = 6

\* The band of thread i, as get_segment gives it for the render's parameters.
Band(i) == get_segment(thread_count, i, ny)

\* C2: the bands get_segment returns for i = 0..thread_count-1 are
\* contiguous (band 0 starts at 0, band i+1 starts where band i ends, the
\* last band ends at ny) and every row of 0..ny-1 lies in exactly one band;
\* every spawned worker renders exactly its band.
C2_BandsPartition ==
    /\ Band(0)[1] = 0
    /\ Band(thread_count - 1)[2] = ny
    /\ \A i \in 0..(thread_count - 1) : Band(i)[1] <= Band(i)[2]
    /\ \A i \in 0..(thread_count - 2) : Band(i + 1)[1] = Band(i)[2]
    /\ \A row \in 0..(ny - 1) :
          Cardinality({i \in 0..(thread_count - 1) :
                          Band(i)[1] <= row /\ row < Band(i)[2]}) = 1
    /\ \A i \in 0..(thread_count - 1) :
          thd[i].status # "unspawned" => <<thd[i].y0, thd[i].y1>> = Band(i)

\* C2 witness: all threads are spawned, the rows do not divide evenly and
\* the last band has absorbed the remainder.
C2_Witness ==
    /\ mpc = "join"
    /\ thread_count = 2 /\ ny = 3
    /\ thd[0].y0 = 0 /\ thd[0].y1 = 1 /\ thd[1].y0 = 1 /\ thd[1].y1 = 3

\* C2 witness of the other case: more threads than rows.
C2_WitnessMoreThreads ==
    /\ mpc = "join"
    /\ thread_count = 3 /\ ny = 2
    /\ thd[0].y1 = 0 /\ thd[1].y1 = 0 /\ thd[2].y0 = 0 /\ thd[2].y1 = 2

\* The rows y down to y0 of one band rendered alone, from generator state
\* rnd, starting at column x.
RECURSIVE BandAlone(_, _, _, _)
BandAlone(rnd, y, x, y0) ==
    IF nx = 0 \/ y < y0 THEN <<>>
    ELSE LET p == PixelCompute(x, y, rnd, samples_per_pixel)
         IN  <<p.pix>> \o (IF x + 1 = nx THEN BandAlone(p.rnd, y - 1, 0, y0)
                                         ELSE BandAlone(p.rnd, y, x + 1, y0))

\* What thread i computes when nothing else runs.
RefBand(i) == BandAlone((1234 * i) % RngMod, Band(i)[2] - 1, 0, Band(i)[1])

RECURSIVE RefImageFrom(_)
RefImageFrom(i) == IF i < 0 THEN <<>> ELSE RefBand(i) \o RefImageFrom(i - 1)

\* The image as a function of thread_count, nx, ny and samples_per_pixel.
RefImage == RefImageFrom(thread_count - 1)

\* C3: the output is a function of the render's parameters alone, whatever
\* the interleaving: each worker is seeded with 1234 * thread_index, what it
\* has computed so far is what it computes when it runs alone (it reads
\* nothing another worker wrote), and the returned buffer is the same in
\* every run with the same parameters.
C3_Deterministic ==
    /\ \A i \in 0..(thread_count - 1) :
          thd[i].status # "unspawned" =>
              /\ thd[i].seed = 1234 * i
              /\ Len(thd[i].cols) <= Len(RefBand(i))
              /\ thd[i].cols = SubSeq(RefBand(i), 1, Len(thd[i].cols))
    /\ Returned => cols = RefImage

\* C3 witness: a render of two workers, each with pixels to compute, has
\* returned.
C3_Witness ==
    /\ Returned
    /\ thread_count = 2 /\ ny = 2 /\ nx = 2 /\ samples_per_pixel = 2
    /\ Len(cols) = 4

\* C8: nothing is written before every worker has been joined
\* successfully; a worker that failed stops the render at its join, with no
\* buffer returned and nothing written; no worker is spawned twice.
C8_FailFast ==
    /\ output # <<>> =>
          \A i \in 0..(thread_count - 1) : thd[i].status = "joined"
    /\ \A k \in 1..Len(workers) :
          thd[workers[k]].status = "panicked" =>
              /\ joined < k
              /\ ~Returned
              /\ output = <<>>
    /\ mpc = "aborted" =>
          /\ joined < Len(workers)
          /\ thd[workers[joined + 1]].status = "panicked"
          /\ output = <<>>
    /\ \A i \in DOMAIN thd : thd[i].spawns <= 1

\* C8 witness: the render aborted at the join of a failed worker after an
\* earlier worker's pixels had already been appended.
C8_Witness ==
    /\ mpc = "aborted"
    /\ joined >= 1
    /\ cols # <<>>
    /\ output = <<>>
(***************************************************************************)
(* The radiance integrator, colour (main.rs:159-184), for one camera       *)
(* sample.  The recursion is followed call by call: depth is the argument  *)
(* of the innermost call and pending the product of the attenuations the   *)
(* calls below it will multiply its result by.  What the hit query and the *)
(* geometry decide is an input of each call: whether the ray hits, the     *)
(* material hit, whether a mirror reflection leaves the surface, and the   *)
(* sky's value.                                                            *)
(***************************************************************************)
MAX_DEPTH == 20

InitialDepth_zero == 0

\* The depth the workers call colour with (main.rs:101).
InitialDepth == 1

Materials == {"Lambertian", "Metal", "Dielectric"}

\* Vec3::direct_product on the fixed-point channel.
direct_product(a, b) == (a * b) \div ColScale

\* The attenuation scatter sets: the albedo, or (1, 1, 1) for a dielectric.
Attenuation(m) ==
    CASE m = "Lambertian" -> ColScale \div 2
      [] m = "Metal" -> (3 * ColScale) \div 4
      [] m = "Dielectric" -> ColScale

\* What scatter returns: true, but for a metal whose reflected direction
\* does not leave the surface (material.rs:47, 70, 126).
scatter(m, leaves) == IF m = "Metal" THEN leaves ELSE TRUE

\* The first operand of the condition at main.rs:173.
DepthOK_inclusive(d) == d <= MAX_DEPTH

DepthOK(d) == d < MAX_DEPTH

InitColour ==
    /\ cpc = "call"
    /\ depth = InitialDepth
    /\ pending = ColScale
    /\ nCalls = 0
    /\ nScatter = 0
    /\ last = NoCall
    /\ radiance = 0
    /\ thread_count = 1 /\ nx = 0 /\ ny = 0 /\ samples_per_pixel = 1
    /\ mpc = "idle" /\ spawn_iter = 0 /\ workers = <<>>
    /\ thd = <<>>
    /\ cols = <<>> /\ joined = 0 /\ output = <<>>
    /\ hitables_in = <<>> /\ bpc = "idle" /\ calls = <<>> /\ results = <<>>
    /\ tree = NoHit /\ last_split = NoSplit /\ splits = 0 /\ query = NoQuery

\* main.rs:163-169: the ray hits nothing; the sky's value comes back through
\* the waiting calls.
ColourMiss(sky) ==
    /\ cpc = "call"
    /\ nCalls' = nCalls + 1
    /\ radiance' = direct_product(pending, sky)
    /\ cpc' = "returned"
    /\ last' = [depth |-> depth, hit |-> FALSE, material |-> "none",
                pending |-> pending, scatter_called |-> FALSE,
                scattered |-> FALSE, outcome |-> "sky"]
    /\ UNCHANGED <<depth, pending, nScatter>>

\* main.rs:170-181 with depth < 20: scatter is called; the call recurses
\* when it returns true and returns black otherwise.
ColourScatter(m, leaves) ==
    /\ cpc = "call"
    /\ DepthOK(depth)
    /\ nCalls' = nCalls + 1
    /\ nScatter' = nScatter + 1
    /\ last' = [depth |-> depth, hit |-> TRUE, material |-> m,
                pending |-> pending, scatter_called |-> TRUE,
                scattered |-> scatter(m, leaves),
                outcome |-> IF scatter(m, leaves) THEN "recurse" ELSE "black"]
    /\ IF scatter(m, leaves)
       THEN /\ depth' = depth + 1
            /\ pending' = direct_product(pending, Attenuation(m))
            /\ UNCHANGED <<cpc, radiance>>
       ELSE /\ radiance' = direct_product(pending, 0)
            /\ cpc' = "returned"
            /\ UNCHANGED <<depth, pending>>

\* main.rs:170-181 with depth >= 20: the && stops at its first operand and
\* the call returns black.
ColourCapped(m) ==
    /\ cpc = "call"
    /\ ~DepthOK(depth)
    /\ nCalls' = nCalls + 1
    /\ radiance' = direct_product(pending, 0)
    /\ cpc' = "returned"
    /\ last' = [depth |-> depth, hit |-> TRUE, material |-> m,
                pending |-> pending, scatter_called |-> FALSE,
                scattered |-> FALSE, outcome |-> "black"]
    /\ UNCHANGED <<depth, pending, nScatter>>

NextColour ==
    \/ \E sky \in {ColScale \div 2, ColScale} : ColourMiss(sky) /\ UNCHANGED <<renderVars, bvhVars>>
    \/ \E m \in Materials, leaves \in BOOLEAN :
          ColourScatter(m, leaves) /\ UNCHANGED <<renderVars, bvhVars>>
    \/ \E m \in Materials : ColourCapped(m) /\ UNCHANGED <<renderVars, bvhVars>>

\* One camera sample's radiance evaluation; the thread that runs it keeps
\* running.
SpecColour == InitColour /\ [][NextColour]_vars /\ WF_vars(NextColour)

\* C9: when the ray hits, colour returns black if the material absorbs the
\* ray or if depth >= 20, and in the latter case scatter is not called; it
\* recurses, with depth + 1 and its result multiplied by the attenuation,
\* exactly when the ray hits, depth < 20 and scatter returns true.
C9_BlackOrRecurse ==
    last.outcome # "none" =>
        /\ (last.hit /\ (last.depth >= 20 \/ ~last.scattered)) =>
              /\ last.outcome = "black"
              /\ cpc = "returned"
              /\ radiance = 0
        /\ (last.hit /\ last.depth >= 20) => ~last.scatter_called
        /\ last.outcome = "recurse" <=>
              (last.hit /\ last.depth < 20 /\ last.scatter_called /\ last.scattered)
        /\ last.outcome = "recurse" =>
              /\ cpc = "call"
              /\ depth = last.depth + 1
              /\ pending = direct_product(last.pending, Attenuation(last.material))

\* C9 witness: a call at the depth cap hit a primitive and returned black
\* without calling scatter.
C9_Witness ==
    /\ last.hit /\ last.depth = 20 /\ ~last.scatter_called
    /\ last.outcome = "black" /\ cpc = "returned"

\* C9 witness of the absorbing case: below the cap, a metal absorbed the ray.
C9_WitnessAbsorbed ==
    /\ last.hit /\ last.depth < 20 /\ last.scatter_called /\ ~last.scattered
    /\ last.outcome = "black" /\ cpc = "returned"

\* C10: one camera sample, started at depth 1, makes at most 20 colour calls
\* and at most 19 scatter calls whatever the hits and the draws, and its
\* evaluation returns.
C10_BoundedRecursion ==
    /\ [](nCalls <= 20 /\ nScatter <= 19 /\ depth <= 20)
    /\ <>(cpc = "returned")

\* C10 witness: a sample that used the whole budget: 20 calls, 19 scatters.
C10_Witness == cpc = "returned" /\ nCalls = 20 /\ nScatter = 19
(***************************************************************************)
(* The BVH: spheres, bounding boxes, the build and the hit query           *)
(* (hitable.rs).  A Vec3 is a triple of integers; a sphere carries the     *)
(* index it has in the pool, which stands for its identity (the material   *)
(* reference of its hit records).                                          *)
(***************************************************************************)
MaxPrims == 5
MaxStack == 8

Min2(a, b) == IF a < b THEN a ELSE b

Max2(a, b) == IF a > b THEN a ELSE b

VSub(a, b) == <<a[1] - b[1], a[2] - b[2], a[3] - b[3]>>

VAdd(a, b) == <<a[1] + b[1], a[2] + b[2], a[3] + b[3]>>

dot(a, b) == a[1] * b[1] + a[2] * b[2] + a[3] * b[3]

square_length(a) == dot(a, a)

\* Division of ray parameters; the divisor is never 0 (a ray's direction is
\* not the zero vector).
DivF(n, d) == IF d > 0 THEN n \div d ELSE (-n) \div (-d)

\* Aabb::build.
AabbBuild(min, max) == [min |-> min, max |-> max]

\* Aabb::surrounding_box: the union of two boxes.
surrounding_box(b0, b1) ==
    AabbBuild([a \in 1..3 |-> Min2(b0.min[a], b1.min[a])],
              [a \in 1..3 |-> Max2(b0.max[a], b1.max[a])])

\* Aabb::hit, the slab test, from axis a on with the interval clipped so far.
RECURSIVE SlabFrom(_, _, _, _, _, _)
SlabFrom(a, box, origin, direction, t_min, t_max) ==
    IF a > 3 THEN TRUE
    ELSE IF direction[a] = 0
         THEN /\ box.min[a] <= origin[a]
              /\ origin[a] <= box.max[a]
              /\ SlabFrom(a + 1, box, origin, direction, t_min, t_max)
         ELSE LET ta == DivF(box.min[a] - origin[a], direction[a])
                  tb == DivF(box.max[a] - origin[a], direction[a])
                  t0 == IF direction[a] < 0 THEN tb ELSE ta
                  t1 == IF direction[a] < 0 THEN ta ELSE tb
                  lo == Max2(t0, t_min)
                  hi == Min2(t1, t_max)
              IN  IF hi <= lo THEN FALSE
                  ELSE SlabFrom(a + 1, box, origin, direction, lo, hi)

AabbHit(box, origin, direction, t_min, t_max) ==
    SlabFrom(1, box, origin, direction, t_min, t_max)

MakeSphere(id, center, radius) ==
    [kind |-> "sphere", id |-> id, center |-> center, radius |-> radius]

\* The primitives a scene is drawn from.  Spheres 1, 2 and 3 touch in the
\* point (-1, 0, 0), so a ray through it hits the three at the same t, and
\* their boxes have the same minimum on the x axis.
Pool ==
    << MakeSphere(1, <<0, 0, 0>>, 1),
       MakeSphere(2, <<1, 0, 0>>, 2),
       MakeSphere(3, <<2, 0, 0>>, 3),
       MakeSphere(4, <<1, 4, 2>>, 1),
       MakeSphere(5, <<5, 1, 1>>, 1),
       MakeSphere(6, <<3, -3, -2>>, 2) >>

\* Hitable::bounding_box (hitable.rs:100-102, 141-144).
bounding_box(h) ==
    IF h.kind = "sphere"
    THEN LET radial_length == <<h.radius, h.radius, h.radius>>
         IN  AabbBuild(VSub(h.center, radial_length), VAdd(h.center, radial_length))
    ELSE h.bounding_box

\* BvhNode::create (hitable.rs:68-75).
create_left_box(left, right) ==
    [kind |-> "node", bounding_box |-> bounding_box(left),
     left |-> left, right |-> right]

create(left, right) ==
    [kind |-> "node",
     bounding_box |-> surrounding_box(bounding_box(left), bounding_box(right)),
     left |-> left, right |-> right]

\* Sphere::hit (hitable.rs:106-139).
SphereHit(s, origin, direction, t_min, t_max) ==
    LET oc == VSub(origin, s.center)
        a == square_length(direction)
        b == dot(oc, direction)
        c == square_length(oc) - s.radius * s.radius
        discriminant == b * b - a * c
        tmp1 == DivF(-b - ISqrt(discriminant), a)
        tmp2 == DivF(-b + ISqrt(discriminant), a)
    IN  IF discriminant > 0
        THEN IF tmp1 < t_max /\ tmp1 > t_min
             THEN [some |-> TRUE, t |-> tmp1, id |-> s.id]
             ELSE IF tmp2 < t_max /\ tmp2 > t_min
                  THEN [some |-> TRUE, t |-> tmp2, id |-> s.id]
                  ELSE NoHit
        ELSE NoHit

\* The match of BvhNode::hit (hitable.rs:83-94).
CloserHit_left_first(hit_left, hit_right) ==
    IF hit_left.some THEN hit_left ELSE hit_right

CloserHit(hit_left, hit_right) ==
    IF hit_left.some /\ hit_right.some
    THEN IF hit_left.t < hit_right.t THEN hit_left ELSE hit_right
    ELSE IF hit_left.some THEN hit_left
         ELSE IF hit_right.some THEN hit_right
              ELSE NoHit

\* Hitable::hit on a tree: BvhNode::hit (hitable.rs:79-98) or Sphere::hit.
RECURSIVE hit(_, _, _, _, _)
hit(h, origin, direction, t_min, t_max) ==
    IF h.kind = "sphere"
    THEN SphereHit(h, origin, direction, t_min, t_max)
    ELSE IF AabbHit(h.bounding_box, origin, direction, t_min, t_max)
         THEN CloserHit(hit(h.left, origin, direction, t_min, t_max),
                        hit(h.right, origin, direction, t_min, t_max))
         ELSE NoHit

\* The key of the sort: the box's minimum on the axis (hitable.rs:53-54).
SortKey(h, axis) == bounding_box(h).min[axis + 1]

\* The comparison of the sort (hitable.rs:55-59) answers Less exactly when
\* the left key is smaller, and never Equal.
IsLess(left, right, axis) == SortKey(left, axis) < SortKey(right, axis)

\* sort_by (hitable.rs:52-60): a stable sort that moves an element before
\* another only when the comparison answers Less, so that elements of equal
\* keys keep their order.  The element at position j goes behind the
\* elements that are less than it and the earlier ones it is not less than.
sort_by(list, axis) ==
    LET n == Len(list)
        rank(j) == 1 + Cardinality({k \in 1..n :
                          \/ IsLess(list[k], list[j], axis)
                          \/ k < j /\ ~IsLess(list[j], list[k], axis)})
    IN  [i \in 1..n |-> list[CHOOSE j \in 1..n : rank(j) = i]]

\* The index split_off is called with (hitable.rs:61).
SplitPoint_zero(n) == 0

SplitPoint(n) == n \div 2

BuildFrame(list) == [op |-> "build", list |-> list]

CreateFrame == [op |-> "create", list |-> <<>>]

\* The collections build is called with: up to MaxPrims different
\* primitives of the pool, the empty collection included; the first three in
\* any order, the ones behind them in the order of the pool.
Inputs ==
    UNION {{s \in [1..n -> 1..Len(Pool)] :
                /\ \A i, j \in 1..n : i # j => s[i] # s[j]
                /\ \A i, j \in 4..n : i < j => s[i] < s[j]} :
              n \in 0..MaxPrims}

InitBvh ==
    /\ \E s \in Inputs : hitables_in = [i \in 1..Len(s) |-> Pool[s[i]]]
    /\ bpc = "build"
    /\ calls = <<BuildFrame(hitables_in)>>
    /\ results = <<>>
    /\ tree = NoHit
    /\ last_split = NoSplit
    /\ splits = 0
    /\ query = NoQuery
    /\ cpc = "idle" /\ depth = 0 /\ pending = 0 /\ nCalls = 0 /\ nScatter = 0
    /\ last = NoCall /\ radiance = 0
    /\ thread_count = 1 /\ nx = 0 /\ ny = 0 /\ samples_per_pixel = 1
    /\ mpc = "idle" /\ spawn_iter = 0 /\ workers = <<>>
    /\ thd = <<>>
    /\ cols = <<>> /\ joined = 0 /\ output = <<>>

Building == bpc = "build" /\ calls # <<>> /\ Head(calls).op = "build"

\* hitable.rs:42: one primitive is returned as it is.
BuildLeaf ==
    /\ Building
    /\ Len(Head(calls).list) = 1
    /\ results' = <<Head(calls).list[1]>> \o results
    /\ calls' = Tail(calls)
    /\ UNCHANGED <<hitables_in, bpc, tree, last_split, splits, query>>

\* hitable.rs:43-47: two primitives become the children of one node.
BuildPair ==
    /\ Building
    /\ Len(Head(calls).list) = 2
    /\ results' = <<create(Head(calls).list[1], Head(calls).list[2])>> \o results
    /\ calls' = Tail(calls)
    /\ UNCHANGED <<hitables_in, bpc, tree, last_split, splits, query>>

\* hitable.rs:48-64: any other length: the axis, the sort, the split and
\* the two recursive calls, with the create of line 65 left to do.
BuildSplit(axis) ==
    /\ Building
    /\ Len(Head(calls).list) \notin {1, 2}
    /\ Len(calls) + 2 <= MaxStack
    /\ LET sorted == sort_by(Head(calls).list, axis)
           n == Len(sorted)
           k == SplitPoint(n)
           left == SubSeq(sorted, 1, k)
           split == SubSeq(sorted, k + 1, n)
       IN  /\ calls' = <<BuildFrame(left), BuildFrame(split), CreateFrame>>
                           \o Tail(calls)
           /\ last_split' = [n |-> n, left |-> Len(left), right |-> Len(split)]
    /\ splits' = splits + 1
    /\ UNCHANGED <<hitables_in, bpc, results, tree, query>>

\* The recursion has used up the stack: the process dies.
BuildOverflow ==
    /\ Building
    /\ Len(Head(calls).list) \notin {1, 2}
    /\ Len(calls) + 2 > MaxStack
    /\ bpc' = "overflow"
    /\ UNCHANGED <<hitables_in, calls, results, tree, last_split, splits, query>>

\* hitable.rs:65: both recursive calls have returned.
BuildCreate ==
    /\ bpc = "build"
    /\ calls # <<>>
    /\ Head(calls).op = "create"
    /\ results' = <<create(results[2], results[1])>> \o Tail(Tail(results))
    /\ calls' = Tail(calls)
    /\ UNCHANGED <<hitables_in, bpc, tree, last_split, splits, query>>

\* hitable.rs:32-36: BvhTree::build returns the tree.
BuildReturn ==
    /\ bpc = "build"
    /\ calls = <<>>
    /\ tree' = results[1]
    /\ results' = <<>>
    /\ bpc' = "built"
    /\ UNCHANGED <<hitables_in, calls, last_split, splits, query>>

\* The nearest hit of a linear scan over the primitives, from position i on;
\* with keep_last, a later primitive replaces an earlier one of the same t.
RECURSIVE ScanFrom(_, _, _, _, _, _, _, _)
ScanFrom(list, i, origin, direction, t_min, t_max, best, keep_last) ==
    IF i > Len(list) THEN best
    ELSE LET h == SphereHit(list[i], origin, direction, t_min, t_max)
             better == /\ h.some
                       /\ \/ ~best.some
                          \/ h.t < best.t
                          \/ keep_last /\ h.t = best.t
         IN  ScanFrom(list, i + 1, origin, direction, t_min, t_max,
                      IF better THEN h ELSE best, keep_last)

Scan(list, origin, direction, t_min, t_max, keep_last) ==
    ScanFrom(list, 1, origin, direction, t_min, t_max, NoHit, keep_last)

\* The primitives whose own hit has the scan's minimum t.
Nearest(list, origin, direction, t_min, t_max) ==
    LET best == Scan(list, origin, direction, t_min, t_max, FALSE)
    IN  {list[i].id : i \in {j \in 1..Len(list) :
            LET h == SphereHit(list[j], origin, direction, t_min, t_max)
            IN  h.some /\ best.some /\ h.t = best.t}}

Origins == {<<-3, 0, 0>>, <<0, 0, 0>>, <<5, -3, 1>>}

Directions == {<<1, 0, 0>>, <<-1, 0, 0>>, <<0, 1, 0>>, <<0, -1, 0>>,
               <<0, 0, 1>>, <<0, 0, -1>>}

Ranges == {<<0, 12>>, <<2, 5>>}

\* A hit query on the root (main.rs:161), beside the scan over the
\* primitives the tree was built from.
Query(origin, direction, range) ==
    /\ bpc = "built"
    /\ query' = [asked |-> TRUE, origin |-> origin, direction |-> direction,
                 t_min |-> range[1], t_max |-> range[2],
                 bvh |-> hit(tree, origin, direction, range[1], range[2]),
                 ties |-> Nearest(hitables_in, origin, direction, range[1], range[2]),
                 scan_first |-> Scan(hitables_in, origin, direction,
                                     range[1], range[2], FALSE),
                 scan_last |-> Scan(hitables_in, origin, direction,
                                    range[1], range[2], TRUE)]
    /\ bpc' = "queried"
    /\ UNCHANGED <<hitables_in, calls, results, tree, last_split, splits>>

NextBvh ==
    \/ BuildLeaf /\ UNCHANGED <<renderVars, colourVars>>
    \/ BuildPair /\ UNCHANGED <<renderVars, colourVars>>
    \/ \E axis \in 0..2 : BuildSplit(axis) /\ UNCHANGED <<renderVars, colourVars>>
    \/ BuildOverflow /\ UNCHANGED <<renderVars, colourVars>>
    \/ BuildCreate /\ UNCHANGED <<renderVars, colourVars>>
    \/ BuildReturn /\ UNCHANGED <<renderVars, colourVars>>
    \/ \E origin \in Origins, direction \in Directions, range \in Ranges :
          Query(origin, direction, range) /\ UNCHANGED <<renderVars, colourVars>>

\* The build and one query on its tree.
SpecBvh == InitBvh /\ [][NextBvh]_vars

NextBuild ==
    \/ BuildLeaf /\ UNCHANGED <<renderVars, colourVars>>
    \/ BuildPair /\ UNCHANGED <<renderVars, colourVars>>
    \/ \E axis \in 0..2 : BuildSplit(axis) /\ UNCHANGED <<renderVars, colourVars>>
    \/ BuildOverflow /\ UNCHANGED <<renderVars, colourVars>>
    \/ BuildCreate /\ UNCHANGED <<renderVars, colourVars>>
    \/ BuildReturn /\ UNCHANGED <<renderVars, colourVars>>

\* The build alone; the thread that builds keeps running.
SpecBuild == InitBvh /\ [][NextBuild]_vars /\ WF_vars(NextBuild)
(***************************************************************************)
(* Properties of the BVH.                                                  *)
(***************************************************************************)
\* C4 as stated: the query on the root returns the primitive and the t of
\* a linear scan for the minimum t, whichever of several primitives of that
\* t the scan keeps (the first or the last), and none when the scan finds
\* none.
C4_SamePrimitiveAsScan ==
    query.asked => (query.bvh = query.scan_first \/ query.bvh = query.scan_last)

\* C4, amended: the query on the root returns none exactly when the scan
\* finds no hit in (t_min, t_max); otherwise it returns the scan's minimum
\* t and a primitive whose hit has that t, which is the scan's primitive
\* whenever one primitive alone has the minimum t.
C4_NearestHit ==
    query.asked =>
        /\ query.bvh.some = query.scan_first.some
        /\ query.bvh.some =>
              /\ query.bvh.t = query.scan_first.t
              /\ query.t_min < query.bvh.t /\ query.bvh.t < query.t_max
              /\ query.bvh.id \in query.ties
              /\ Cardinality(query.ties) = 1 => query.bvh = query.scan_first

\* C4 witness: a query on a tree of at least three primitives that two
\* primitives answer and one of them, alone, nearest.
C4_Witness ==
    /\ query.asked
    /\ Len(hitables_in) >= 3
    /\ query.bvh.some
    /\ Cardinality(query.ties) = 1
    /\ Cardinality({i \in 1..Len(hitables_in) :
          SphereHit(hitables_in[i], query.origin, query.direction,
                    query.t_min, query.t_max).some}) >= 2

\* C4 witness of pruning: a node's box is missed and the scan finds no hit.
C4_WitnessPruned ==
    /\ query.asked
    /\ tree.kind = "node"
    /\ ~AabbHit(tree.bounding_box, query.origin, query.direction,
                query.t_min, query.t_max)
    /\ ~query.scan_first.some

\* The box that encloses exactly the boxes of the primitives of a list.
UnionOfAll(list) ==
    LET lo(a) == CHOOSE m \in {list[i].center[a] - list[i].radius : i \in 1..Len(list)} :
                    \A i \in 1..Len(list) : m <= list[i].center[a] - list[i].radius
        hi(a) == CHOOSE m \in {list[i].center[a] + list[i].radius : i \in 1..Len(list)} :
                    \A i \in 1..Len(list) : m >= list[i].center[a] + list[i].radius
    IN  [min |-> [a \in 1..3 |-> lo(a)], max |-> [a \in 1..3 |-> hi(a)]]

\* The primitives of a tree, left to right.
RECURSIVE Leaves(_)
Leaves(h) == IF h.kind = "sphere" THEN <<h>> ELSE Leaves(h.left) \o Leaves(h.right)

\* Every internal node's box is the union of its children's boxes.
RECURSIVE NodesExact(_)
NodesExact(h) ==
    h.kind = "node" =>
        /\ \A a \in 1..3 :
              /\ h.bounding_box.min[a] =
                    Min2(bounding_box(h.left).min[a], bounding_box(h.right).min[a])
              /\ h.bounding_box.max[a] =
                    Max2(bounding_box(h.left).max[a], bounding_box(h.right).max[a])
        /\ NodesExact(h.left)
        /\ NodesExact(h.right)

\* C5: in every subtree the build returns, each internal node's box is the
\* union of its two children's boxes, and the root's box is the union of
\* the boxes of all the primitives build was called with.
C5_BoxesAreUnions ==
    /\ \A i \in 1..Len(results) : NodesExact(results[i])
    /\ bpc \in {"built", "queried"} =>
          /\ NodesExact(tree)
          /\ bounding_box(tree) = UnionOfAll(hitables_in)
          /\ bounding_box(tree) = UnionOfAll(Leaves(tree))

\* C5 witness: a tree of at least three primitives, with an internal node
\* below the root, has been built.
C5_Witness ==
    /\ bpc = "built"
    /\ Len(hitables_in) >= 3
    /\ tree.kind = "node"
    /\ tree.right.kind = "node"

\* C6: for a non-empty collection the build never runs out of stack, every
\* sort/split/recurse step is on n >= 3 primitives and recurses on
\* floor(n/2) and n - floor(n/2) of them, both at least 1 and less than n,
\* and the build returns.
C6_BuildTerminates ==
    /\ [](Len(hitables_in) >= 1 =>
            /\ bpc # "overflow"
            /\ last_split # NoSplit =>
                  /\ last_split.n >= 3
                  /\ last_split.left = last_split.n \div 2
                  /\ last_split.right = last_split.n - last_split.n \div 2
                  /\ 1 <= last_split.left /\ last_split.left < last_split.n
                  /\ 1 <= last_split.right /\ last_split.right < last_split.n)
    /\ (Len(hitables_in) >= 1 => <>(bpc = "built"))

\* C6 witness: a build that split its input and then split one of the parts
\* again has returned.
C6_Witness ==
    /\ bpc = "built"
    /\ Len(hitables_in) >= 5
    /\ splits >= 2
    /\ last_split.n >= 3

\* C7: build called with no primitives is rejected before the recursive
\* build runs: no sort/split/recurse step is ever made on its behalf.
C7_EmptyRejected ==
    Len(hitables_in) = 0 => /\ splits = 0
                            /\ last_split = NoSplit
                            /\ bpc # "overflow"
====
